---- MODULE Spec2Model ----
(***************************************************************************)
(* Model of linear_transformations_as_function_application.ipynb.          *)
(*                                                                         *)
(* The notebook is a Python kernel session: a namespace of bound names     *)
(* (X, f1, f2, f3, F, result), the output area of each code cell and the   *)
(* kernel's execution counter.  Its only computation is torch's `@`        *)
(* (torch.matmul) on 1-D and 2-D int64 tensors, plus torch.tensor,         *)
(* torch.stack and a seeded torch.randint.                                 *)
(*                                                                         *)
(* A tensor is modelled as torch stores a contiguous one: a shape and a    *)
(* flat row-major data sequence.  Entries are int64 in the notebook; the   *)
(* entries drawn here are small, so no sum leaves the int64 range and the  *)
(* two's-complement wrap of torch's integer kernels is never exercised.    *)
(***************************************************************************)
EXTENDS Integers, Sequences, FiniteSets, TLC

VARIABLES ns, out, execution_count

vars == <<ns, out, execution_count>>

\* Largest number of elements of a tensor operand drawn by InitProduct.
MaxNumel == 4
\* Entries of the tensor operands drawn by InitProduct.
Vals == {0, 1, 2}
\* Number of cell executions of the notebook session that are explored.
MaxExec == 8

-----------------------------------------------------------------------------
(* Tensors *)

Tensor(shape, data) == [shape |-> shape, data |-> data]

RECURSIVE prod(_)
prod(s) == IF s = <<>> THEN 1 ELSE Head(s) * prod(Tail(s))

numel(t) == prod(t.shape)

dim(t) == Len(t.shape)

\* Entry (i, j) of a 2-D tensor, 0-based as in the source.
at2(t, i, j) == t.data[i * t.shape[2] + j + 1]

\* torch.tensor([...]) of a flat Python list.
tensor(list) == Tensor(<<Len(list)>>, list)

\* tensor1.unsqueeze(0): a leading dimension of size 1, same storage.
unsqueeze0(t) == Tensor(<<1>> \o t.shape, t.data)

\* Mutant of squeeze0: the singleton dimension is kept (keepdim slip).
squeeze0_noop(t) == t

\* tensor.squeeze_(0): drops the leading dimension when its size is 1.
squeeze0(t) ==
    IF dim(t) > 0 /\ t.shape[1] = 1 THEN Tensor(Tail(t.shape), t.data) ELSE t

-----------------------------------------------------------------------------
(* Outcomes of an expression: a value, or a raised exception *)

Ok(t) == [ok |-> TRUE, val |-> t]

\* RuntimeError: mat1 and mat2 shapes cannot be multiplied (AxB and CxD)
ShapeError(s1, s2) ==
    [ok |-> FALSE, ename |-> "RuntimeError", mat1 |-> s1, mat2 |-> s2]

\* RuntimeError: stack expects a non-empty list of equal-size tensors
StackError == [ok |-> FALSE, ename |-> "RuntimeError", mat1 |-> <<>>, mat2 |-> <<>>]

\* NameError: name '...' is not defined
NameError(name) == [ok |-> FALSE, ename |-> "NameError", evalue |-> name]

-----------------------------------------------------------------------------
(* torch.matmul *)

\* sum over j in [0, n) of f[j]
RECURSIVE SumTo(_, _)
SumTo(f, n) == IF n = 0 THEN 0 ELSE SumTo(f, n - 1) + f[n - 1]

\* Mutants of mm.  Each is mm with the one slip that `slip` names.
mm_mutant(a, b, slip) ==
    IF a.shape[2] # b.shape[1] \/ (slip = "rejects_empty" /\ a.shape[2] = 0)
    THEN ShapeError(a.shape, b.shape)
    ELSE LET M == a.shape[1]
             N == a.shape[2]
             K == b.shape[2]
             term(i, j, k) ==
                 IF slip = "skiplast" /\ j = N - 1 THEN 0
                 ELSE IF slip = "skipfirst" /\ j = 0 THEN 0
                 ELSE IF slip = "unweighted" THEN at2(b, j, k)
                 ELSE IF slip = "firstrow" THEN at2(a, 0, j) * at2(b, j, k)
                 ELSE at2(a, i, j) * at2(b, j, k)
             entry(i, k) == SumTo([j \in 0..(N - 1) |-> term(i, j, k)], N)
         IN  Ok(Tensor(IF slip = "shape_swapped" THEN <<K, M>> ELSE <<M, K>>,
                       [p \in 1..(M * K) |-> entry((p - 1) \div K, (p - 1) % K)]))

\* the last term of every sum is dropped (range(N - 1))
mm_skiplast(a, b) == mm_mutant(a, b, "skiplast")

\* the first term of every sum is dropped (range(1, N))
mm_skipfirst(a, b) == mm_mutant(a, b, "skipfirst")

\* the left weights are ignored: every column is just summed
mm_unweighted(a, b) == mm_mutant(a, b, "unweighted")

\* every output row is computed from row 0 of the left operand
mm_firstrow(a, b) == mm_mutant(a, b, "firstrow")

\* the output is given the shape (K, M)
mm_shape_swapped(a, b) == mm_mutant(a, b, "shape_swapped")

\* an empty inner dimension is rejected instead of giving zeros
mm_rejects_empty(a, b) == mm_mutant(a, b, "rejects_empty")

\* mismatched inner dimensions are silently truncated to the smaller one
mm_truncate(a, b) ==
    LET M == a.shape[1]
        N == IF a.shape[2] < b.shape[1] THEN a.shape[2] ELSE b.shape[1]
        K == b.shape[2]
        entry(i, k) == SumTo([j \in 0..(N - 1) |-> at2(a, i, j) * at2(b, j, k)], N)
    IN  Ok(Tensor(<<M, K>>,
                  [p \in 1..(M * K) |-> entry((p - 1) \div K, (p - 1) % K)]))

\* torch.mm on two 2-D tensors: (M, N) @ (N, K) => (M, K)
mm(a, b) ==
    IF a.shape[2] # b.shape[1]
    THEN ShapeError(a.shape, b.shape)
    ELSE LET M == a.shape[1]
             N == a.shape[2]
             K == b.shape[2]
             entry(i, k) == SumTo([j \in 0..(N - 1) |-> at2(a, i, j) * at2(b, j, k)], N)
         IN  Ok(Tensor(<<M, K>>,
                       [p \in 1..(M * K) |-> entry((p - 1) \div K, (p - 1) % K)]))

\* a @ b for a 1-D or 2-D left operand and a 2-D right operand.
matmul(a, b) ==
    IF dim(a) = 1
    THEN LET r == mm(unsqueeze0(a), b)
         IN  IF r.ok THEN Ok(squeeze0(r.val)) ELSE r
    ELSE mm(a, b)

\* torch.stack(list) of equal-shape 1-D tensors, along a new leading dimension.
RECURSIVE cat(_)
cat(ts) == IF ts = <<>> THEN <<>> ELSE Head(ts).data \o cat(Tail(ts))

\* Mutant of stack: the list is stacked last to first.
RECURSIVE rev(_)
rev(ts) == IF ts = <<>> THEN <<>> ELSE rev(Tail(ts)) \o <<Head(ts)>>

stack_reversed(ts) ==
    IF ts = <<>> \/ \E i \in 1..Len(ts) : ts[i].shape # ts[1].shape
    THEN StackError
    ELSE Ok(Tensor(<<Len(ts)>> \o ts[1].shape, cat(rev(ts))))

stack(ts) ==
    IF ts = <<>> \/ \E i \in 1..Len(ts) : ts[i].shape # ts[1].shape
    THEN StackError
    ELSE Ok(Tensor(<<Len(ts)>> \o ts[1].shape, cat(ts)))

\* torch.manual_seed(0); torch.randint(0, 10, (3, 3)), as the notebook prints it.
randint_seed0 == Tensor(<<3, 3>>, <<4, 9, 3, 0, 3, 9, 7, 3, 7>>)

-----------------------------------------------------------------------------
(* The kernel: namespace, cell outputs, execution counter *)

Bound(name) == name \in DOMAIN ns

Bind(n, name, val) ==
    [x \in (DOMAIN n) \cup {name} |-> IF x = name THEN val ELSE n[x]]

Finished(cell, stdout) ==
    [x \in (DOMAIN out) \cup {cell} |->
        IF x = cell THEN [status |-> "ok", stdout |-> stdout] ELSE out[x]]

Failed(cell, exc) ==
    [x \in (DOMAIN out) \cup {cell} |->
        IF x = cell THEN [status |-> "error", exc |-> exc] ELSE out[x]]

\* The statement `result = <a> @ <b>` run in namespace n: the outcome of the
\* expression, a NameError when an operand name is unbound.
EvalMatmul(n, a, b) ==
    IF a \notin DOMAIN n THEN NameError(a)
    ELSE IF b \notin DOMAIN n THEN NameError(b)
    ELSE matmul(n[a], n[b])

\* Mutant of VectorCell: the product is written into row 0 of X in place.
VectorCell_inplace(cell, f, lit) ==
    /\ execution_count < MaxExec
    /\ execution_count' = execution_count + 1
    /\ LET n1 == Bind(ns, f, tensor(lit))
           r  == EvalMatmul(n1, f, "X")
       IN  IF r.ok
           THEN /\ ns' = Bind(Bind(n1, "result", r.val), "X",
                              Tensor(n1["X"].shape,
                                     [p \in 1..Len(n1["X"].data) |->
                                         IF p <= Len(r.val.data) THEN r.val.data[p]
                                         ELSE n1["X"].data[p]]))
                /\ out' = Finished(cell, <<n1["X"], r.val>>)
           ELSE /\ ns' = n1
                /\ out' = Failed(cell, r)

\* A vector cell: f = torch.tensor(lit); result = f @ X; show X and result.
VectorCell(cell, f, lit) ==
    /\ execution_count < MaxExec
    /\ execution_count' = execution_count + 1
    /\ LET n1 == Bind(ns, f, tensor(lit))
           r  == EvalMatmul(n1, f, "X")
       IN  IF r.ok
           THEN /\ ns' = Bind(n1, "result", r.val)
                /\ out' = Finished(cell, <<n1["X"], r.val>>)
           ELSE /\ ns' = n1
                /\ out' = Failed(cell, r)

Cell3 ==
    /\ execution_count < MaxExec
    /\ execution_count' = execution_count + 1
    /\ ns' = Bind(ns, "X", randint_seed0)
    /\ out' = Finished("cell3", <<>>)

Cell4 == VectorCell("cell4", "f1", <<1, 0, 0>>)

Cell5 == VectorCell("cell5", "f2", <<0, 1, 0>>)

Cell6 == VectorCell("cell6", "f3", <<2, 2, 2>>)

\* F = torch.stack([f1, f2, f3]); result = F @ X; show X, F and result.
Cell8 ==
    /\ execution_count < MaxExec
    /\ execution_count' = execution_count + 1
    /\ IF ~Bound("f1") \/ ~Bound("f2") \/ ~Bound("f3")
       THEN /\ ns' = ns
            /\ out' = Failed("cell8",
                        NameError(IF ~Bound("f1") THEN "f1"
                                  ELSE IF ~Bound("f2") THEN "f2" ELSE "f3"))
       ELSE LET s == stack(<<ns["f1"], ns["f2"], ns["f3"]>>)
            IN  IF ~s.ok
                THEN ns' = ns /\ out' = Failed("cell8", s)
                ELSE LET n1 == Bind(ns, "F", s.val)
                         r  == EvalMatmul(n1, "F", "X")
                     IN  IF r.ok
                         THEN /\ ns' = Bind(n1, "result", r.val)
                              /\ out' = Finished("cell8", <<n1["X"], n1["F"], r.val>>)
                         ELSE /\ ns' = n1
                              /\ out' = Failed("cell8", r)

Init ==
    /\ ns = <<>>
    /\ out = <<>>
    /\ execution_count = 0

Next == Cell3 \/ Cell4 \/ Cell5 \/ Cell6 \/ Cell8

Spec == Init /\ [][Next]_vars

-----------------------------------------------------------------------------
(* The product on its own: result = left @ right for arbitrary operands *)

Shapes1 == {<<n>> : n \in 0..MaxNumel}

Shapes2 == {s \in (0..MaxNumel) \X (0..MaxNumel) : s[1] * s[2] <= MaxNumel}

Tensors(shapes) ==
    UNION {{Tensor(s, d) : d \in [1..prod(s) -> Vals]} : s \in shapes}

Vectors == Tensors(Shapes1)

Matrices == Tensors(Shapes2)

InitProduct ==
    /\ \E l \in Vectors \cup Matrices, r \in Matrices :
          ns = [x \in {"left", "right"} |-> IF x = "left" THEN l ELSE r]
    /\ out = <<>>
    /\ execution_count = 0

\* result = left @ right
Product ==
    /\ execution_count = 0
    /\ execution_count' = execution_count + 1
    /\ LET r == EvalMatmul(ns, "left", "right")
       IN  IF r.ok
           THEN /\ ns' = Bind(ns, "result", r.val)
                /\ out' = Finished("call", <<>>)
           ELSE /\ ns' = ns
                /\ out' = Failed("call", r)

NextProduct == Product

SpecProduct == InitProduct /\ [][NextProduct]_vars

-----------------------------------------------------------------------------
(* Properties of the product (checked under SpecProduct) *)

Called == "call" \in DOMAIN out

Returned == Called /\ out["call"].status = "ok"

Raised == Called /\ out["call"].status = "error"

Left == ns["left"]

Right == ns["right"]

Result == ns["result"]

\* M, N of the left operand (a vector counts as one row), N', K of the right.
LeftRows == IF dim(Left) = 1 THEN 1 ELSE Left.shape[1]

LeftCols == Left.shape[dim(Left)]

RightRows == Right.shape[1]

RightCols == Right.shape[2]

LeftAt(i, j) == Left.data[i * LeftCols + j + 1]

RightAt(j, k) == Right.data[j * RightCols + k + 1]

\* left[i][0] * right[0][k] + ... + left[i][n-1] * right[n-1][k]
RECURSIVE Dot(_, _, _)
Dot(i, k, n) ==
    IF n = 0 THEN 0 ELSE LeftAt(i, n - 1) * RightAt(n - 1, k) + Dot(i, k, n - 1)

\* right[0][k] + ... + right[n-1][k]
RECURSIVE ColSum(_, _)
ColSum(k, n) == IF n = 0 THEN 0 ELSE RightAt(n - 1, k) + ColSum(k, n - 1)

\* C1: for a left operand of shape M x N (a vector counting as M = 1) and a
\* right operand of shape N x K, element (i, k) of the product is the sum
\* over j in [0, N) of left[i][j] * right[j][k].
C1_ElementIsDotProduct ==
    Returned =>
        \A i \in 0..(LeftRows - 1), k \in 0..(RightCols - 1) :
            Result.data[i * RightCols + k + 1] = Dot(i, k, LeftCols)

C1_Witness ==
    /\ Returned
    /\ Left.shape = <<2, 2>>
    /\ Right.shape = <<2, 2>>
    /\ Left.data = <<1, 2, 2, 2>>
    /\ Right.data = <<2, 1, 1, 2>>
    /\ Result.data = <<4, 5, 6, 6>>

\* C2: the product of a vector of length N and an N x K matrix has shape
\* (K,); the product of an M x N matrix and an N x K matrix has shape (M, K).
C2_OutputShape ==
    Returned =>
        /\ dim(Left) = 1 => Result.shape = <<RightCols>>
        /\ dim(Left) = 2 => Result.shape = <<LeftRows, RightCols>>
        /\ Len(Result.data) = numel(Result)

C2_Witness ==
    /\ Returned
    /\ Left.shape = <<2>>
    /\ Right.shape = <<2, 1>>
    /\ Result.shape = <<1>>

\* C3 (as stated): a product whose inner dimensions differ fails with a
\* DimensionMismatch error that names the two sizes, and returns no result.
C3_RaisesDimensionMismatch ==
    (Called /\ LeftCols # RightRows) =>
        /\ Raised
        /\ out["call"].exc.ename = "DimensionMismatch"
        /\ ~Bound("result")

\* C3 (amended): a product whose inner dimensions differ fails with torch's
\* RuntimeError, which names the shapes of both operands (so both
\* incompatible sizes), and binds no result: nothing is truncated or padded.
C3_RaisesShapeError ==
    (Called /\ LeftCols # RightRows) =>
        /\ Raised
        /\ out["call"].exc.ename = "RuntimeError"
        /\ out["call"].exc.mat1 = <<LeftRows, LeftCols>>
        /\ out["call"].exc.mat2 = <<RightRows, RightCols>>
        /\ ~Bound("result")

C3_Witness ==
    /\ Raised
    /\ Left.shape = <<3>>
    /\ Right.shape = <<2, 2>>
    /\ out["call"].exc.mat1 = <<1, 3>>
    /\ out["call"].exc.mat2 = <<2, 2>>

OneHot(i) ==
    /\ dim(Left) = 1
    /\ i < LeftCols
    /\ \A j \in 0..(LeftCols - 1) : LeftAt(0, j) = IF j = i THEN 1 ELSE 0

\* C5: the one-hot vector with its 1 at position i, applied to X, returns
\* exactly row i of X.
C5_OneHotSelectsRow ==
    Returned =>
        \A i \in 0..MaxNumel :
            OneHot(i) =>
                /\ Result.shape = <<RightCols>>
                /\ \A k \in 0..(RightCols - 1) :
                      Result.data[k + 1] = RightAt(i, k)

C5_Witness ==
    /\ Returned
    /\ OneHot(1)
    /\ Right.shape = <<2, 2>>
    /\ Right.data = <<0, 1, 2, 1>>
    /\ Result.data = <<2, 1>>

AllEqual(c) ==
    /\ dim(Left) = 1
    /\ \A j \in 0..(LeftCols - 1) : LeftAt(0, j) = c

\* C6: the vector whose N entries all equal c, applied to X, returns the
\* vector whose k-th entry is c times the sum of column k of X.
C6_EqualWeightsScaleColumnSums ==
    Returned =>
        \A c \in Vals :
            AllEqual(c) =>
                /\ Result.shape = <<RightCols>>
                /\ \A k \in 0..(RightCols - 1) :
                      Result.data[k + 1] = c * ColSum(k, RightRows)

C6_Witness ==
    /\ Returned
    /\ AllEqual(2)
    /\ Right.shape = <<2, 2>>
    /\ Right.data = <<1, 2, 2, 0>>
    /\ Result.data = <<6, 4>>

\* The rows of a 2-D tensor, as 1-D tensors (the list a stack is made of).
RowsOf(t) ==
    [i \in 1..t.shape[1] |->
        Tensor(<<t.shape[2]>>,
               [j \in 1..t.shape[2] |-> t.data[(i - 1) * t.shape[2] + j]])]

\* C7: when F is the stack of a list of row-vectors, row i of F @ X is the
\* vector-matrix product of the i-th vector and X.
C7_BatchConsistency ==
    (Returned /\ dim(Left) = 2 /\ LeftRows > 0) =>
        LET fs == RowsOf(Left)
        IN  /\ stack(fs) = Ok(Left)
            /\ \A i \in 1..Len(fs) :
                  /\ matmul(fs[i], Right).ok
                  /\ RowsOf(Result)[i] = matmul(fs[i], Right).val

C7_Witness ==
    /\ Returned
    /\ Left.shape = <<2, 2>>
    /\ Left.data = <<0, 1, 2, 2>>
    /\ Right.shape = <<2, 2>>
    /\ Right.data = <<1, 2, 0, 1>>
    /\ Result.data = <<0, 1, 2, 6>>

\* C10: a vector left operand is treated as a single row: v @ X is the only
\* row of V @ X, V the 1 x N matrix whose row is v, as a vector of length K.
C10_VectorIsSingleRow ==
    (Called /\ dim(Left) = 1) =>
        LET V  == Tensor(<<1, LeftCols>>, Left.data)
            rV == matmul(V, Right)
        IN  /\ Returned <=> rV.ok
            /\ Returned =>
                  /\ rV.val.shape = <<1, RightCols>>
                  /\ Result.shape = <<RightCols>>
                  /\ Result = RowsOf(rV.val)[1]

C10_Witness ==
    /\ Returned
    /\ Left = tensor(<<1, 2>>)
    /\ Right.shape = <<2, 2>>
    /\ Right.data = <<2, 0, 1, 1>>
    /\ Result = tensor(<<4, 2>>)

-----------------------------------------------------------------------------
(* Properties of the notebook session (checked under Spec) *)

CellOk(cell) == cell \in DOMAIN out /\ out[cell].status = "ok"

\* C8, frame: no cell changes the value of an operand that is already bound.
OperandsKept ==
    \A name \in {"X", "f1", "f2", "f3", "F"} :
        name \in DOMAIN ns => name \in DOMAIN ns' /\ ns'[name] = ns[name]

\* C8, determinism: a cell that printed its product prints the same when run
\* again.
SameOutputAgain ==
    \A cell \in DOMAIN out :
        (out[cell].status = "ok" /\ out'[cell].status = "ok") => out'[cell] = out[cell]

C9_ConcreteScenario ==
    LET X0 == Tensor(<<3, 3>>, <<4, 9, 3, 0, 3, 9, 7, 3, 7>>)
    IN  /\ Bound("X") => ns["X"] = X0
        /\ CellOk("cell4") =>
              out["cell4"].stdout = <<X0, Tensor(<<3>>, <<4, 9, 3>>)>>
        /\ CellOk("cell5") =>
              out["cell5"].stdout = <<X0, Tensor(<<3>>, <<0, 3, 9>>)>>
        /\ CellOk("cell6") =>
              out["cell6"].stdout = <<X0, Tensor(<<3>>, <<22, 30, 38>>)>>
        /\ CellOk("cell8") =>
              out["cell8"].stdout =
                  <<X0, Tensor(<<3, 3>>, <<1, 0, 0, 0, 1, 0, 2, 2, 2>>),
                    Tensor(<<3, 3>>, <<4, 9, 3, 0, 3, 9, 22, 30, 38>>)>>

C9_Witness ==
    /\ CellOk("cell4") /\ CellOk("cell5") /\ CellOk("cell6") /\ CellOk("cell8")
    /\ ns["result"] = Tensor(<<3, 3>>, <<4, 9, 3, 0, 3, 9, 22, 30, 38>>)

====
